---- MODULE Spec2Model ----
(***************************************************************************)
(* Model of backend/app/routers/modify.py: the diagram sanitizer           *)
(* clean_invalid_class_statements and the modify request handler, with the *)
(* generation call of backend/app/services/gemini_service.py.              *)
(*                                                                         *)
(* A Python str is a sequence of one-character strings.                    *)
(***************************************************************************)
EXTENDS Integers, Sequences, FiniteSets, TLC

VARIABLES
    original,         \* the string a direct caller passed first
    diagram,          \* argument of clean_invalid_class_statements
    lines,            \* diagram.split("\n")
    subgraph_ids,     \* the set built by the first pass
    cleaned_lines,    \* the list built by the second pass
    i,                \* index of the line the running loop is at
    pc,               \* position inside clean_invalid_class_statements
    result,           \* its return value
    round,            \* 1: first application, 2: applied to its own result
    first_result,     \* return value of the first application
    mpc,              \* position inside modify ("none": no request)
    body,             \* the ModifyRequest
    api,              \* what client.models.generate_content did
    exc,              \* the exception on its way to modify's except clause
    modified_mermaid_code,
    response,         \* what modify hands back
    stages            \* the stages modify has run, in order

vars == <<original, diagram, lines, subgraph_ids, cleaned_lines, i, pc, result, round,
          first_result, mpc, body, api, exc, modified_mermaid_code, response,
          stages>>

modifyVars == <<mpc, body, api, exc, modified_mermaid_code, response, stages>>

(***************************************************************************)
(* Characters.                                                             *)
(***************************************************************************)
UpperSeq == <<"A", "B", "C", "D", "E", "F", "G", "H", "I", "J", "K", "L", "M",
              "N", "O", "P", "Q", "R", "S", "T", "U", "V", "W", "X", "Y", "Z">>
LowerSeq == <<"a", "b", "c", "d", "e", "f", "g", "h", "i", "j", "k", "l", "m",
              "n", "o", "p", "q", "r", "s", "t", "u", "v", "w", "x", "y", "z">>
Letters == {UpperSeq[k] : k \in 1..Len(UpperSeq)} \cup {LowerSeq[k] : k \in 1..Len(LowerSeq)}
Digits == {"0", "1", "2", "3", "4", "5", "6", "7", "8", "9"}
\* [A-Za-z_] and [A-Za-z0-9_]
IdStart == Letters \cup {"_"}
IdChar == IdStart \cup Digits
\* what str.strip() removes and \s matches, among the characters used here
Whitespace == {" ", "\t", "\n", "\r"}
NL == "\n"
DQ == "\""
SQ == "'"
Quotes == {DQ, SQ}
\* the characters [^;:] excludes
Terminators == {";", ":"}

SetMin(S) == CHOOSE x \in S : \A y \in S : x <= y
SetMax(S) == CHOOSE x \in S : \A y \in S : y <= x
Range(s) == {s[k] : k \in 1..Len(s)}

(***************************************************************************)
(* The str methods the code uses.                                          *)
(***************************************************************************)
\* s.strip(chars)
StripChars(s, chars) ==
    LET keep == {k \in 1..Len(s) : s[k] \notin chars}
    IN  IF keep = {} THEN <<>> ELSE SubSeq(s, SetMin(keep), SetMax(keep))

\* s.strip()
Strip(s) == StripChars(s, Whitespace)

\* s.startswith(p)
StartsWith(s, p) == Len(s) >= Len(p) /\ SubSeq(s, 1, Len(p)) = p

\* sub in s
Contains(s, sub) ==
    \E k \in 0..(Len(s) - Len(sub)) : SubSeq(s, k + 1, k + Len(sub)) = sub

\* s.split(sep), sep one character: never an empty list
RECURSIVE SplitFrom(_, _, _)
SplitFrom(s, sep, cur) ==
    IF s = <<>> THEN <<cur>>
    ELSE IF Head(s) = sep THEN <<cur>> \o SplitFrom(Tail(s), sep, <<>>)
    ELSE SplitFrom(Tail(s), sep, Append(cur, Head(s)))

SplitMutDropTrailing(s, sep) ==
    LET all == SplitFrom(s, sep, <<>>)
    IN  IF Len(all) > 1 /\ all[Len(all)] = <<>> THEN SubSeq(all, 1, Len(all) - 1) ELSE all

Split(s, sep) == SplitFrom(s, sep, <<>>)

\* sep.join(parts)
RECURSIVE JoinFrom(_, _)
JoinFrom(parts, sep) ==
    IF parts = <<>> THEN <<>>
    ELSE IF Len(parts) = 1 THEN parts[1]
    ELSE parts[1] \o <<sep>> \o JoinFrom(Tail(parts), sep)

RECURSIVE JoinMutTrailing(_, _)
JoinMutTrailing(parts, sep) ==
    IF parts = <<>> THEN <<>>
    ELSE parts[1] \o <<sep>> \o JoinMutTrailing(Tail(parts), sep)

Join(parts, sep) == JoinFrom(parts, sep)

\* s.replace(old, ""): the occurrences of old, left to right, not overlapping
RECURSIVE Remove(_, _)
Remove(s, old) ==
    IF Len(s) < Len(old) \/ old = <<>> THEN s
    ELSE IF StartsWith(s, old) THEN Remove(SubSeq(s, Len(old) + 1, Len(s)), old)
    ELSE <<Head(s)>> \o Remove(Tail(s), old)

\* s.lower()
LowerChar(c) ==
    IF \E k \in 1..Len(UpperSeq) : UpperSeq[k] = c
    THEN LowerSeq[CHOOSE k \in 1..Len(UpperSeq) : UpperSeq[k] = c]
    ELSE c

LowerMutIdentity(s) == s

Lower(s) == [k \in 1..Len(s) |-> LowerChar(s[k])]

(***************************************************************************)
(* The three regular expressions, matched at the start of the stripped     *)
(* line as re.match does.  A match is the set holding group(1); no match   *)
(* is the empty set.                                                       *)
(***************************************************************************)
KW_SUBGRAPH == <<"s", "u", "b", "g", "r", "a", "p", "h">>
KW_CLASS == <<"c", "l", "a", "s", "s">>
CLASS_PREFIX == <<"c", "l", "a", "s", "s", " ">>

\* the first index >= from that is past s or holds a character outside chars
RunEnd(s, from, chars) ==
    SetMin({k \in from..(Len(s) + 1) : k > Len(s) \/ s[k] \notin chars})

\* the first index >= from that is past s or holds a character of chars
RunEndNot(s, from, chars) ==
    SetMin({k \in from..(Len(s) + 1) : k > Len(s) \/ s[k] \in chars})

\* Where the group after kw\s+ can start: \s+ is greedy and gives back one
\* character at a time, so every index after at least one whitespace
\* character and at most the whole run is tried, the largest first.
GroupStarts(t, kw) ==
    IF ~StartsWith(t, kw) THEN {}
    ELSE (Len(kw) + 2)..RunEnd(t, Len(kw) + 1, Whitespace)

\* re.match(r"subgraph\s+([A-Za-z_][A-Za-z0-9_]*)", t)
SubgraphExplicitMatch(t) ==
    LET starts == {k \in GroupStarts(t, KW_SUBGRAPH) : k <= Len(t) /\ t[k] \in IdStart}
    IN  IF starts = {} THEN {}
        ELSE LET k == SetMax(starts)
             IN  {SubSeq(t, k, RunEnd(t, k + 1, IdChar) - 1)}

\* re.match(r'subgraph\s+"([^"]+)"', t)
SubgraphLabelMatch(t) ==
    LET starts == {k \in GroupStarts(t, KW_SUBGRAPH) :
                      /\ k <= Len(t)
                      /\ t[k] = DQ
                      /\ RunEndNot(t, k + 1, {DQ}) <= Len(t)
                      /\ RunEndNot(t, k + 1, {DQ}) >= k + 2}
    IN  IF starts = {} THEN {}
        ELSE LET k == SetMax(starts)
             IN  {SubSeq(t, k + 1, RunEndNot(t, k + 1, {DQ}) - 1)}

\* a plausible slip: r"class\s+(.+)", no stop at ; or :
ClassMatchMutWholeRest(t) ==
    LET starts == {k \in GroupStarts(t, KW_CLASS) : k <= Len(t)}
    IN  IF starts = {} THEN {}
        ELSE {SubSeq(t, SetMax(starts), Len(t))}

\* re.match(r"class\s+([^;:]+)", t)
ClassMatch(t) ==
    LET starts == {k \in GroupStarts(t, KW_CLASS) : k <= Len(t) /\ t[k] \notin Terminators}
    IN  IF starts = {} THEN {}
        ELSE LET k == SetMax(starts)
             IN  {SubSeq(t, k, RunEndNot(t, k + 1, Terminators) - 1)}

(***************************************************************************)
(* The bodies of the two loops.                                            *)
(***************************************************************************)
\* label.replace(" ", "").replace("'", "")
Sanitized(label) == Remove(Remove(label, <<" ">>), <<SQ>>)

\* a plausible slip: the sanitized form of a label is not added
CollectLineMutNoSanitized(line) ==
    SubgraphExplicitMatch(Strip(line)) \cup SubgraphLabelMatch(Strip(line))

\* what one iteration of the first loop adds to subgraph_ids
CollectLine(line) ==
    LET line_stripped == Strip(line)
    IN  SubgraphExplicitMatch(line_stripped)
        \cup UNION {{label} \cup (IF Sanitized(label) # <<>> THEN {Sanitized(label)} ELSE {}) :
                       label \in SubgraphLabelMatch(line_stripped)}

\* ids = [id.strip().strip("\"'") for id in ids_string.split(",")]
Ids(group1) ==
    LET pieces == Split(Strip(group1), ",")
    IN  [k \in 1..Len(pieces) |-> StripChars(Strip(pieces[k]), Quotes)]

\* a plausible slip: the test for a quote character is left out
HasSubgraphIdMutNoQuote(ids, sids) ==
    \E k \in 1..Len(ids) : ids[k] \in sids \/ " " \in Range(ids[k])

\* any(id in subgraph_ids or " " in id or "'" in id for id in ids)
HasSubgraphId(ids, sids) ==
    \E k \in 1..Len(ids) :
        ids[k] \in sids \/ " " \in Range(ids[k]) \/ SQ \in Range(ids[k])

\* whether the second loop skips the line
SkipsLine(line, sids) ==
    /\ StartsWith(Strip(line), CLASS_PREFIX)
    /\ \E g \in ClassMatch(Strip(line)) : HasSubgraphId(Ids(g), sids)

\* the function as one expression
clean_invalid_class_statements(d) ==
    LET ls == Split(d, NL)
        sids == UNION {CollectLine(ls[k]) : k \in 1..Len(ls)}
        Kept(l) == ~SkipsLine(l, sids)
    IN  Join(SelectSeq(ls, Kept), NL)

(***************************************************************************)
(* Inputs: diagrams of at most MaxLines lines, and the spec's scenarios.   *)
(***************************************************************************)
MaxLines == 2

W_API == <<"A", "P", "I">>
W_MyService == <<"M", "y", "S", "e", "r", "v", "i", "c", "e">>
L_MyService == <<"M", "y", " ", "S", "e", "r", "v", "i", "c", "e">>
L_OX == <<"O", "'", "X">>
W_OX == <<"O", "X">>
EDGE == <<"A", "-", "-", ">", "B">>
END == <<"e", "n", "d">>
FILL_F9F == <<" ", "f", "i", "l", "l", ":", "#", "f", "9", "f">>
FILL_BBF == <<" ", "f", "i", "l", "l", ":", "#", "b", "b", "f">>
FILL_CCC == <<" ", "f", "i", "l", "l", ":", "#", "c", "c", "c">>
STYLE_BLOCK == <<";", " ", "s", "t", "y", "l", "e", " ", "X", " ", "f", "i", "l", "l", ":", "#", "0", "0", "0">>

Quoted(s) == <<DQ>> \o s \o <<DQ>>

\* subgraph lines: bareword, quoted label, and shapes neither pattern matches
DeclLines ==
    { KW_SUBGRAPH \o <<" ">> \o W_API,
      <<" ", " ">> \o KW_SUBGRAPH \o <<" ">> \o Quoted(L_MyService),
      KW_SUBGRAPH \o <<" ">> \o Quoted(L_OX),
      KW_SUBGRAPH \o <<" ">> \o Quoted(<<" ">>),
      KW_SUBGRAPH \o <<" ">> \o Quoted(<<>>),
      KW_SUBGRAPH \o <<" ">> \o <<"B", "_", "1", "[">> \o Quoted(<<"x">>) \o <<"]">>,
      KW_SUBGRAPH \o <<"\t", " ">> \o <<"X">>,
      KW_SUBGRAPH \o <<"Y">>,
      KW_SUBGRAPH \o <<" ">> \o Quoted(<<"Y">>) \o <<" ", "e">> }

\* targets clauses
TargetLists ==
    { <<"A">>, W_API, W_API \o <<",", "A">>, <<"A", ",", " ", "B">>, <<"X", ",", "Y">>,
      W_MyService, Quoted(L_MyService), Quoted(W_API), L_OX, W_OX,
      <<SQ, "X", SQ>>, <<"B", "_", "1">> }

ClassLines ==
    { KW_CLASS \o <<" ">> \o t : t \in TargetLists }
    \cup { KW_CLASS \o <<" ", "A">> \o FILL_F9F,
           KW_CLASS \o <<" ">> \o W_API \o <<";">> }
    \cup { KW_CLASS \o <<" ">> \o t \o STYLE_BLOCK : t \in {<<"X", ",", "Y">>, W_API} }
    \cup { KW_CLASS \o <<" ", "A", " ", "s">>,
           KW_CLASS \o <<" ", " ", ";">>,
           KW_CLASS \o <<" ", ";">>,
           KW_CLASS \o <<"\t", "A">>,
           KW_CLASS \o <<"D", "e", "f", " ", "s">> \o FILL_F9F,
           <<" ", " ">> \o KW_CLASS \o <<" ">> \o W_API \o <<";">>,
           <<" ", " ">> \o KW_CLASS \o <<" ", " ", "A", " ", ";", " ">>,
           KW_CLASS \o <<" ">> \o W_API \o <<"\r">> }

OtherLines ==
    { <<>>, EDGE, <<" ", " ">> \o EDGE \o <<" ">> }

LineSet == DeclLines \cup ClassLines \cup OtherLines

ScenarioA ==
    JoinFrom(<< KW_SUBGRAPH \o <<" ">> \o W_API, EDGE, END,
            KW_CLASS \o <<" ">> \o W_API \o <<",", "A">> \o FILL_F9F,
            KW_CLASS \o <<" ", "A">> \o FILL_BBF >>, NL)
ScenarioB ==
    JoinFrom(<< KW_SUBGRAPH \o <<" ">> \o Quoted(L_MyService),
            KW_CLASS \o <<" ">> \o W_MyService \o FILL_CCC >>, NL)
ScenarioC == KW_CLASS \o <<" ">> \o Quoted(L_MyService) \o FILL_CCC
ScenarioD == <<>>
ScenarioE == KW_CLASS \o <<" ", "X", ",", "Y">> \o STYLE_BLOCK
Scenarios == {ScenarioA, ScenarioB, ScenarioC, ScenarioD, ScenarioE}

(***************************************************************************)
(* clean_invalid_class_statements, statement by statement.                 *)
(***************************************************************************)
Pending == [pending |-> TRUE]

NoRequest ==
    /\ mpc = "none"
    /\ body = Pending
    /\ api = Pending
    /\ exc = <<>>
    /\ modified_mermaid_code = <<>>
    /\ response = Pending
    /\ stages = <<>>

Init ==
    /\ \/ original \in Scenarios
       \/ \E n \in 1..MaxLines : \E ls \in [1..n -> LineSet] : original = JoinFrom(ls, NL)
    /\ diagram = original
    /\ lines = <<>>
    /\ subgraph_ids = {}
    /\ cleaned_lines = <<>>
    /\ i = 0
    /\ pc = "split"
    /\ result = <<>>
    /\ round = 1
    /\ first_result = <<>>
    /\ NoRequest

\* lines = diagram.split("\n"); cleaned_lines = []; subgraph_ids = set()
SplitLines ==
    /\ pc = "split"
    /\ lines' = Split(diagram, NL)
    /\ cleaned_lines' = <<>>
    /\ subgraph_ids' = {}
    /\ i' = 1
    /\ pc' = "collect"
    /\ UNCHANGED <<original, diagram, result, round, first_result>>
    /\ UNCHANGED modifyVars

\* one iteration of the first loop
CollectStep ==
    /\ pc = "collect"
    /\ subgraph_ids' = subgraph_ids \cup CollectLine(lines[i])
    /\ IF i < Len(lines)
       THEN i' = i + 1 /\ pc' = "collect"
       ELSE i' = 1 /\ pc' = "filter"
    /\ UNCHANGED <<original, diagram, lines, cleaned_lines, result, round, first_result>>
    /\ UNCHANGED modifyVars

\* a single forward pass: a line is judged by the declarations above it
FilterStepMutSinglePass ==
    /\ pc = "filter"
    /\ LET seen == UNION {CollectLine(lines[k]) : k \in 1..i}
       IN  cleaned_lines' = IF SkipsLine(lines[i], seen)
                            THEN cleaned_lines
                            ELSE Append(cleaned_lines, lines[i])
    /\ IF i < Len(lines)
       THEN i' = i + 1 /\ pc' = "filter"
       ELSE i' = 0 /\ pc' = "join"
    /\ UNCHANGED <<original, diagram, lines, subgraph_ids, result, round, first_result>>
    /\ UNCHANGED modifyVars

\* the kept line is appended stripped
FilterStepMutStripped ==
    /\ pc = "filter"
    /\ cleaned_lines' = IF SkipsLine(lines[i], subgraph_ids)
                        THEN cleaned_lines
                        ELSE Append(cleaned_lines, Strip(lines[i]))
    /\ IF i < Len(lines)
       THEN i' = i + 1 /\ pc' = "filter"
       ELSE i' = 0 /\ pc' = "join"
    /\ UNCHANGED <<original, diagram, lines, subgraph_ids, result, round, first_result>>
    /\ UNCHANGED modifyVars

\* one iteration of the second loop: continue, or cleaned_lines.append(line)
FilterStep ==
    /\ pc = "filter"
    /\ \/ /\ SkipsLine(lines[i], subgraph_ids)
          /\ cleaned_lines' = cleaned_lines
       \/ /\ ~SkipsLine(lines[i], subgraph_ids)
          /\ cleaned_lines' = Append(cleaned_lines, lines[i])
    /\ IF i < Len(lines)
       THEN i' = i + 1 /\ pc' = "filter"
       ELSE i' = 0 /\ pc' = "join"
    /\ UNCHANGED <<original, diagram, lines, subgraph_ids, result, round, first_result>>
    /\ UNCHANGED modifyVars

\* return "\n".join(cleaned_lines)
JoinReturn ==
    /\ pc = "join"
    /\ result' = Join(cleaned_lines, NL)
    /\ pc' = "done"
    /\ UNCHANGED <<original, diagram, lines, subgraph_ids, cleaned_lines, i, round, first_result>>
    /\ UNCHANGED modifyVars

\* the caller applies the function to its own result
Reapply ==
    /\ pc = "done"
    /\ mpc = "none"
    /\ round = 1
    /\ first_result' = result
    /\ diagram' = result
    /\ round' = 2
    /\ pc' = "split"
    /\ UNCHANGED <<original, lines, subgraph_ids, cleaned_lines, i, result>>
    /\ UNCHANGED modifyVars

Next == SplitLines \/ CollectStep \/ FilterStep \/ JoinReturn \/ Reapply

Spec == Init /\ [][Next]_vars

(***************************************************************************)
(* modify and GeminiService.call_gemini_api.                               *)
(***************************************************************************)
MAX_INSTRUCTIONS == 1000
MAX_DIAGRAM == 100000
STATUS_RATE_LIMITED == 429

EXAMPLE_REPOS == {"fastapi", "streamlit", "flask", "api-analytics", "monkeytype"}

\* the grave accent, which a TLA+ string cannot hold
BT == "grave"
FENCE_MERMAID == <<BT, BT, BT, "m", "e", "r", "m", "a", "i", "d">>
FENCE == <<BT, BT, BT>>
BAD_INSTRUCTIONS ==
    <<"B", "A", "D", "_", "I", "N", "S", "T", "R", "U", "C", "T", "I", "O", "N", "S">>
S_429 == <<"4", "2", "9">>
S_RATE_LIMIT == <<"r", "a", "t", "e", " ", "l", "i", "m", "i", "t">>

MSG_REQUIRED ==
    <<"I", "n", "s", "t", "r", "u", "c", "t", "i", "o", "n", "s", " ", "a",
      "n", "d", "/", "o", "r", " ", "c", "u", "r", "r", "e", "n", "t", " ",
      "d", "i", "a", "g", "r", "a", "m", " ", "a", "r", "e", " ", "r", "e",
      "q", "u", "i", "r", "e", "d">>
MSG_TOO_LONG ==
    <<"I", "n", "s", "t", "r", "u", "c", "t", "i", "o", "n", "s", " ", "e",
      "x", "c", "e", "e", "d", " ", "m", "a", "x", "i", "m", "u", "m", " ",
      "l", "e", "n", "g", "t", "h", " ", "o", "f", " ", "1", "0", "0", "0",
      " ", "c", "h", "a", "r", "a", "c", "t", "e", "r", "s">>
MSG_EXAMPLE ==
    <<"E", "x", "a", "m", "p", "l", "e", " ", "r", "e", "p", "o", "s", " ",
      "c", "a", "n", "n", "o", "t", " ", "b", "e", " ", "m", "o", "d", "i",
      "f", "i", "e", "d">>
MSG_BAD_INSTRUCTIONS ==
    <<"I", "n", "v", "a", "l", "i", "d", " ", "o", "r", " ", "u", "n", "c",
      "l", "e", "a", "r", " ", "i", "n", "s", "t", "r", "u", "c", "t", "i",
      "o", "n", "s", " ", "p", "r", "o", "v", "i", "d", "e", "d">>
MSG_HIGH_DEMAND ==
    <<"S", "e", "r", "v", "i", "c", "e", " ", "i", "s", " ", "c", "u", "r",
      "r", "e", "n", "t", "l", "y", " ", "e", "x", "p", "e", "r", "i", "e",
      "n", "c", "i", "n", "g", " ", "h", "i", "g", "h", " ", "d", "e", "m",
      "a", "n", "d", ".", " ", "P", "l", "e", "a", "s", "e", " ", "t", "r",
      "y", " ", "a", "g", "a", "i", "n", " ", "i", "n", " ", "a", " ", "f",
      "e", "w", " ", "m", "i", "n", "u", "t", "e", "s", ".">>
MSG_NO_CONTENT ==
    <<"N", "o", " ", "c", "o", "n", "t", "e", "n", "t", " ", "r", "e", "t",
      "u", "r", "n", "e", "d", " ", "f", "r", "o", "m", " ", "G", "o", "o",
      "g", "l", "e", " ", "G", "e", "m", "i", "n", "i">>

\* A request body: the handler reads of instructions and current_diagram only
\* whether they are empty and how long they are, so each is its length.
InstructionLengths == {0, 1, MAX_INSTRUCTIONS, MAX_INSTRUCTIONS + 1}
DiagramLengths == {0, 1, MAX_DIAGRAM, MAX_DIAGRAM + 1}
Repos == EXAMPLE_REPOS \cup {"gitdiagram", "FastAPI"}
Bodies ==
    [instructions : InstructionLengths, current_diagram : DiagramLengths, repo : Repos]

\* what generate_content can raise
ApiErrors ==
    { <<"4", "2", "9", " ", "T", "o", "o", " ", "M", "a", "n", "y">>,
      <<"R", "a", "t", "e", " ", "L", "i", "m", "i", "t", " ", "h", "i", "t">>,
      <<"q", "u", "o", "t", "a", " ", "4", "2", " ", "9">>,
      <<"t", "i", "m", "e", "o", "u", "t">> }

\* what generate_content can return as response.text
FencedOpen == { <<>>, FENCE_MERMAID \o <<NL>>, FENCE \o <<NL>>, <<" ">> }
FencedClose == { <<>>, <<NL>> \o FENCE, <<NL>> }
GeneratedDiagrams ==
    Scenarios \cup LineSet
    \cup { BAD_INSTRUCTIONS, EDGE \o <<NL>> \o BAD_INSTRUCTIONS \o <<" ", "x">>,
           <<"B", "A", "D", "_">> \o <<NL>> \o <<"I", "N", "S", "T", "R", "U", "C", "T", "I", "O", "N", "S">> }
ApiTexts == { o \o d \o c : o \in FencedOpen, d \in GeneratedDiagrams, c \in FencedClose }

\* not body.instructions or not body.current_diagram
MissingInput(b) == b.instructions = 0 \/ b.current_diagram = 0

\* a plausible slip: the diagram's length is not looked at
TooLongMutInstructionsOnly(b) == b.instructions > MAX_INSTRUCTIONS

\* len(body.instructions) > 1000 or len(body.current_diagram) > 100000
TooLong(b) == b.instructions > MAX_INSTRUCTIONS \/ b.current_diagram > MAX_DIAGRAM

\* body.repo in [...]
IsExampleRepo(b) == b.repo \in EXAMPLE_REPOS

\* "429" in str(e) or "rate limit" in str(e).lower()
IsRateLimit(e) == Contains(e, S_429) \/ Contains(Lower(e), S_RATE_LIMIT)

\* .replace("```mermaid", "").replace("```", "").strip()
StripFences(text) == Strip(Remove(Remove(text, FENCE_MERMAID), FENCE))

InitModify ==
    /\ mpc = "validate"
    /\ body \in Bodies
    /\ api = Pending
    /\ exc = <<>>
    /\ modified_mermaid_code = <<>>
    /\ response = Pending
    /\ stages = <<>>
    /\ original = <<>>
    /\ diagram = <<>>
    /\ lines = <<>>
    /\ subgraph_ids = {}
    /\ cleaned_lines = <<>>
    /\ i = 0
    /\ pc = "idle"
    /\ result = <<>>
    /\ round = 1
    /\ first_result = <<>>

sanitizerState == <<original, diagram, lines, subgraph_ids, cleaned_lines, i, pc, result, round, first_result>>

\* the checks before the generation call
Validate ==
    /\ mpc = "validate"
    /\ stages' = Append(stages, "validate")
    /\ \/ /\ MissingInput(body)
          /\ response' = [error |-> MSG_REQUIRED]
          /\ mpc' = "returned"
       \/ /\ ~MissingInput(body)
          /\ TooLong(body)
          /\ response' = [error |-> MSG_TOO_LONG]
          /\ mpc' = "returned"
       \/ /\ ~MissingInput(body)
          /\ ~TooLong(body)
          /\ IsExampleRepo(body)
          /\ response' = [error |-> MSG_EXAMPLE]
          /\ mpc' = "returned"
       \/ /\ ~MissingInput(body)
          /\ ~TooLong(body)
          /\ ~IsExampleRepo(body)
          /\ response' = response
          /\ mpc' = "call"
    /\ UNCHANGED <<body, api, exc, modified_mermaid_code>>
    /\ UNCHANGED sanitizerState

\* gemini_service.call_gemini_api: generate_content raises, returns no text
\* (a ValueError), or returns text; an exception is raised again as it is
CallGemini ==
    /\ mpc = "call"
    /\ stages' = Append(stages, "oracle")
    /\ \/ \E e \in ApiErrors :
            /\ api' = [raised |-> e]
            /\ exc' = e
            /\ mpc' = "except"
            /\ UNCHANGED modified_mermaid_code
       \/ /\ api' = [text |-> <<>>]
          /\ exc' = MSG_NO_CONTENT
          /\ mpc' = "except"
          /\ UNCHANGED modified_mermaid_code
       \/ \E text \in ApiTexts :
            /\ text # <<>>
            /\ api' = [text |-> text]
            /\ modified_mermaid_code' = text
            /\ mpc' = "sentinel"
            /\ UNCHANGED exc
    /\ UNCHANGED <<body, response>>
    /\ UNCHANGED sanitizerState

\* if "BAD_INSTRUCTIONS" in modified_mermaid_code
CheckSentinel ==
    /\ mpc = "sentinel"
    /\ stages' = Append(stages, "sentinel")
    /\ \/ /\ Contains(modified_mermaid_code, BAD_INSTRUCTIONS)
          /\ response' = [error |-> MSG_BAD_INSTRUCTIONS]
          /\ mpc' = "returned"
       \/ /\ ~Contains(modified_mermaid_code, BAD_INSTRUCTIONS)
          /\ response' = response
          /\ mpc' = "strip"
    /\ UNCHANGED <<body, api, exc, modified_mermaid_code>>
    /\ UNCHANGED sanitizerState

\* the markdown fences are removed
StripCodeFences ==
    /\ mpc = "strip"
    /\ stages' = Append(stages, "strip")
    /\ modified_mermaid_code' = StripFences(modified_mermaid_code)
    /\ mpc' = "sanitize"
    /\ UNCHANGED <<body, api, exc, response>>
    /\ UNCHANGED sanitizerState

\* clean_invalid_class_statements(modified_mermaid_code) is entered
CallSanitizer ==
    /\ mpc = "sanitize"
    /\ pc = "idle"
    /\ stages' = Append(stages, "sanitize")
    /\ diagram' = modified_mermaid_code
    /\ pc' = "split"
    /\ UNCHANGED <<original, lines, subgraph_ids, cleaned_lines, i, result, round, first_result>>
    /\ UNCHANGED <<mpc, body, api, exc, modified_mermaid_code, response>>

\* return {"diagram": modified_mermaid_code}
ReturnDiagram ==
    /\ mpc = "sanitize"
    /\ pc = "done"
    /\ stages' = Append(stages, "return")
    /\ modified_mermaid_code' = result
    /\ response' = [diagram |-> result]
    /\ mpc' = "returned"
    /\ UNCHANGED <<body, api, exc>>
    /\ UNCHANGED sanitizerState

\* except Exception as e
HandleException ==
    /\ mpc = "except"
    /\ stages' = Append(stages, "except")
    /\ \/ /\ IsRateLimit(exc)
          /\ response' = [HTTPException |->
                             [status_code |-> STATUS_RATE_LIMITED, detail |-> MSG_HIGH_DEMAND]]
       \/ /\ ~IsRateLimit(exc)
          /\ response' = [error |-> exc]
    /\ mpc' = "returned"
    /\ UNCHANGED <<body, api, exc, modified_mermaid_code>>
    /\ UNCHANGED sanitizerState

NextModify ==
    \/ Validate
    \/ CallGemini
    \/ CheckSentinel
    \/ StripCodeFences
    \/ CallSanitizer
    \/ SplitLines
    \/ CollectStep
    \/ FilterStep
    \/ JoinReturn
    \/ ReturnDiagram
    \/ HandleException

SpecModify == InitModify /\ [][NextModify]_vars

(***************************************************************************)
(* Vocabulary of the properties, stated apart from the code above.         *)
(***************************************************************************)
\* a direct call of the sanitizer has returned
Returned == pc = "done" /\ mpc = "none"

\* line k of the input is in the output (equal lines share one decision)
KeptLine(k) == lines[k] \in Range(cleaned_lines)

\* the trimmed line starts with "class "
StartsWithClass(line) == StartsWith(Strip(line), CLASS_PREFIX)

\* the targets clauses extracted from a line: one, or none
TargetsClause(line) == IF StartsWithClass(line) THEN ClassMatch(Strip(line)) ELSE {}

\* the text after "class" up to, not including, the first ; or :
ClauseBeforeTerminator(line) ==
    LET t == Strip(line)
        first == Len(KW_CLASS) + 1
        stops == {k \in first..Len(t) : t[k] \in Terminators}
    IN  SubSeq(t, first, IF stops = {} THEN Len(t) ELSE SetMin(stops) - 1)

\* the pieces between the commas of a clause
Pieces(clause) ==
    LET commas == {k \in 1..Len(clause) : clause[k] = ","}
        Stop(a) == SetMin({b \in commas \cup {Len(clause) + 1} : b > a})
    IN  { SubSeq(clause, a + 1, Stop(a) - 1) : a \in {0} \cup commas }

\* a piece trimmed of whitespace, then of surrounding quote characters
Cleaned(piece) ==
    LET a == {k \in 1..Len(piece) : piece[k] \notin Whitespace}
        t == IF a = {} THEN <<>> ELSE SubSeq(piece, SetMin(a), SetMax(a))
        b == {k \in 1..Len(t) : t[k] \notin Quotes}
    IN  IF b = {} THEN <<>> ELSE SubSeq(t, SetMin(b), SetMax(b))

CleanedTargets(clause) == {Cleaned(piece) : piece \in Pieces(clause)}

\* a target that makes a class statement go
Offending(id, sids) == id \in sids \/ " " \in Range(id) \/ SQ \in Range(id)

IsIdentifier(w) == w # <<>> /\ w[1] \in IdStart /\ \A k \in 1..Len(w) : w[k] \in IdChar

\* the indices of a trimmed line that follow "subgraph" and whitespace only
AfterSubgraph(t) ==
    { a \in (Len(KW_SUBGRAPH) + 2)..Len(t) :
        /\ SubSeq(t, 1, Len(KW_SUBGRAPH)) = KW_SUBGRAPH
        /\ \A k \in (Len(KW_SUBGRAPH) + 1)..(a - 1) : t[k] \in Whitespace }

\* the labels of a line  subgraph "<label>" , the label not empty
QuotedLabels(line) ==
    LET t == Strip(line)
    IN  UNION { { SubSeq(t, a + 1, b - 1) :
                    b \in { c \in (a + 2)..Len(t) :
                              t[c] = DQ /\ \A k \in (a + 1)..(c - 1) : t[k] # DQ } } :
                a \in { c \in AfterSubgraph(t) : t[c] = DQ } }

\* the label with every space and every single quote deleted
Normalized(label) ==
    LET Stays(c) == c # " " /\ c # SQ
    IN  SelectSeq(label, Stays)

\* the bareword of a line  subgraph <id>
Barewords(line) ==
    LET t == Strip(line)
    IN  UNION { { SubSeq(t, a, b) :
                    b \in { c \in a..Len(t) :
                              /\ \A k \in a..c : t[k] \in IdChar
                              /\ (c = Len(t) \/ t[c + 1] \notin IdChar) } } :
                a \in { c \in AfterSubgraph(t) : t[c] \in IdStart } }

\* a is b with some lines left out
RECURSIVE IsSubsequence(_, _)
IsSubsequence(a, b) ==
    IF a = <<>> THEN TRUE
    ELSE IF b = <<>> THEN FALSE
    ELSE IF Head(a) = Head(b) THEN IsSubsequence(Tail(a), Tail(b))
    ELSE IsSubsequence(a, Tail(b))

\* sub is in s, whatever the case of s's letters (sub is in lower case)
ContainsIgnoreCase(s, sub) ==
    \E k \in 0..(Len(s) - Len(sub)) : \A j \in 1..Len(sub) : LowerChar(s[k + j]) = sub[j]

(***************************************************************************)
(* The properties.                                                         *)
(***************************************************************************)

\* C1: when the sanitizer has returned, every input line whose trimmed form
\* starts with "class " and that yields a targets clause is in the output
\* if and only if none of its cleaned targets is in the subgraph identifier
\* set, holds a space, or holds a single quote.
C1_ClassStatementKeptIff ==
    Returned =>
        \A k \in 1..Len(lines) : \A clause \in TargetsClause(lines[k]) :
            KeptLine(k) <=> \A id \in CleanedTargets(clause) : ~Offending(id, subgraph_ids)

\* C1 witness: a class statement with two targets was dropped only because
\* one of them, free of spaces and quotes, is a declared subgraph.
C1_Witness ==
    /\ Returned
    /\ \E k \in 1..Len(lines) : \E clause \in TargetsClause(lines[k]) :
          /\ ~KeptLine(k)
          /\ Cardinality(CleanedTargets(clause)) = 2
          /\ \A id \in CleanedTargets(clause) : " " \notin Range(id) /\ SQ \notin Range(id)

\* the targets and style of a line  class <targets> <style reference>
\* whose targets are bare identifiers: <<>> for any other line
StyledTargets(line) ==
    LET t == Strip(line)
        first == Len(CLASS_PREFIX) + 1
        gaps == {k \in first..Len(t) : t[k] = " "}
    IN  IF StartsWith(t, CLASS_PREFIX) /\ gaps # {} /\ SetMin(gaps) > first
           /\ \A w \in Pieces(SubSeq(t, first, SetMin(gaps) - 1)) : IsIdentifier(w)
        THEN Pieces(SubSeq(t, first, SetMin(gaps) - 1))
        ELSE {}

\* C2: a class statement  class <targets> <style reference>  whose targets
\* are bare identifiers, none a subgraph identifier, is kept; for the
\* scenario with subgraph API, the line styling API and A goes and the line
\* styling A alone stays.
C2_NodeStylingKept ==
    Returned =>
        /\ \A k \in 1..Len(lines) :
              (StyledTargets(lines[k]) # {} /\ StyledTargets(lines[k]) \cap subgraph_ids = {})
                  => KeptLine(k)
        /\ (round = 1 /\ original = ScenarioA) =>
              cleaned_lines = << KW_SUBGRAPH \o <<" ">> \o W_API, EDGE, END,
                                 KW_CLASS \o <<" ", "A">> \o FILL_BBF >>

\* C3: the subgraph identifier set is complete before the first line is
\* filtered and stays so, and a class statement with a target that some
\* subgraph line declares is dropped wherever that line stands, above it or
\* below.
C3_PositionIndependence ==
    /\ pc = "filter" =>
          subgraph_ids = UNION {CollectLine(lines[j]) : j \in 1..Len(lines)}
    /\ pc = "done" =>
          \A k \in 1..Len(lines) : \A j \in 1..Len(lines) :
              \A clause \in TargetsClause(lines[k]) :
                  (CleanedTargets(clause) \cap CollectLine(lines[j]) # {}) => ~KeptLine(k)

\* C3 witness: a class statement was dropped for a subgraph declared on a
\* later line, its targets free of spaces and quotes.
C3_Witness ==
    /\ Returned
    /\ \E k \in 1..Len(lines) : \E j \in (k + 1)..Len(lines) :
          \E clause \in TargetsClause(lines[k]) :
              /\ CleanedTargets(clause) \cap CollectLine(lines[j]) # {}
              /\ \A id \in CleanedTargets(clause) : " " \notin Range(id) /\ SQ \notin Range(id)
              /\ ~KeptLine(k)

\* C4: the sanitizer applied to its own result returns that result.
C4_Idempotent == (Returned /\ round = 2) => result = first_result

\* C4 witness: the second application has returned, the first one having
\* removed a class statement and kept other lines.
C4_Witness ==
    /\ Returned
    /\ round = 2
    /\ first_result # original
    /\ first_result # <<>>

\* C5: an input with no line whose trimmed form starts with "class " is
\* returned character for character.
C5_IdentityOnCleanInput ==
    (Returned /\ round = 1 /\ \A k \in 1..Len(lines) : ~StartsWithClass(lines[k]))
        => result = original

\* C5 witness: an input with a subgraph declaration, no class statement
\* and a trailing newline has been returned.
C5_Witness ==
    /\ Returned
    /\ round = 1
    /\ \A k \in 1..Len(lines) : ~StartsWithClass(lines[k])
    /\ subgraph_ids # {}
    /\ original # <<>>
    /\ original[Len(original)] = NL

\* C6: a line  subgraph "<label>"  puts the label and, when not empty, the
\* label without its spaces and single quotes into the subgraph identifier
\* set, and a class statement with either as a cleaned target is dropped;
\* a line  subgraph <id>  puts exactly the bareword into the set.
C6_QuotedLabelNormalization ==
    Returned =>
        \A j \in 1..Len(lines) :
            /\ \A label \in QuotedLabels(lines[j]) :
                  /\ {label} \cup ({Normalized(label)} \ {<<>>}) \subseteq subgraph_ids
                  /\ \A k \in 1..Len(lines) : \A clause \in TargetsClause(lines[k]) :
                        (CleanedTargets(clause) \cap ({label} \cup ({Normalized(label)} \ {<<>>})) # {})
                            => ~KeptLine(k)
            /\ \A id \in Barewords(lines[j]) :
                  /\ id \in subgraph_ids
                  /\ subgraph_ids \ UNION {CollectLine(lines[m]) : m \in (1..Len(lines)) \ {j}}
                        \subseteq {id}

\* C6 witness: a class statement naming the normalized form of a quoted
\* label, which differs from the label, was dropped.
C6_Witness ==
    /\ Returned
    /\ \E j \in 1..Len(lines) : \E label \in QuotedLabels(lines[j]) :
          /\ Normalized(label) # label
          /\ \E k \in 1..Len(lines) : \E clause \in TargetsClause(lines[k]) :
                /\ CleanedTargets(clause) = {Normalized(label)}
                /\ ~KeptLine(k)

\* C7: a class statement is judged by the text between "class" and the
\* first ; or : alone; the line  class X,Y; style X fill:#000  alone in a
\* diagram is kept.
C7_TargetsClauseTruncation ==
    Returned =>
        /\ \A k \in 1..Len(lines) :
              StartsWithClass(lines[k]) =>
                  (KeptLine(k) <=>
                      \A id \in CleanedTargets(ClauseBeforeTerminator(lines[k])) :
                          ~Offending(id, subgraph_ids))
        /\ (round = 1 /\ original = ScenarioE) => result = ScenarioE

\* C7 witness: a class statement with spaces after its first ; was kept.
C7_Witness ==
    /\ Returned
    /\ \E k \in 1..Len(lines) :
          /\ StartsWithClass(lines[k])
          /\ KeptLine(k)
          /\ LET t == Strip(lines[k])
                 stops == {m \in 1..Len(t) : t[m] \in Terminators}
             IN  stops # {} /\ \E m \in (SetMin(stops) + 1)..Len(t) : t[m] = " "

\* C8: the output lines are the input lines with some left out, in the
\* input's order and untrimmed, the result is those lines joined, and the
\* lines that are no class-statement candidates are all there.
C8_Frame ==
    LET Other(line) == TargetsClause(line) = {}
    IN  Returned =>
            /\ IsSubsequence(cleaned_lines, lines)
            /\ SelectSeq(cleaned_lines, Other) = SelectSeq(lines, Other)
            /\ result = Join(cleaned_lines, NL)

\* C8 witness: a line with surrounding whitespace was kept and another
\* line was dropped.
C8_Witness ==
    /\ Returned
    /\ Len(cleaned_lines) < Len(lines)
    /\ \E k \in 1..Len(cleaned_lines) : Strip(cleaned_lines[k]) # cleaned_lines[k]

\* the request passes the checks before the generation call
ValidRequest(b) ==
    /\ b.instructions >= 1
    /\ b.current_diagram >= 1
    /\ b.instructions <= MAX_INSTRUCTIONS
    /\ b.current_diagram <= MAX_DIAGRAM
    /\ b.repo \notin EXAMPLE_REPOS

PIPELINE == <<"validate", "oracle", "sentinel", "strip", "sanitize", "return">>

\* C9: the generation call follows a passed validation; sentinel check,
\* fence stripping and sanitizer follow, in this order, a call that
\* returned text; a diagram is returned only for a text without the
\* sentinel and is the sanitizer's result on the fence-stripped text; a
\* failed validation or a sentinel ends in an error.
C9_PipelineOrder ==
    LET ran == SelectSeq(stages, LAMBDA st : st # "except")
    IN  /\ ran = SubSeq(PIPELINE, 1, Len(ran))
        /\ "oracle" \in Range(stages) => ValidRequest(body)
        /\ "sentinel" \in Range(stages) => ("text" \in DOMAIN api /\ api.text # <<>>)
        /\ (mpc = "returned" /\ "diagram" \in DOMAIN response) =>
              /\ "text" \in DOMAIN api
              /\ ~Contains(api.text, BAD_INSTRUCTIONS)
              /\ response.diagram = clean_invalid_class_statements(StripFences(api.text))
        /\ (mpc = "returned" /\ ~ValidRequest(body)) => "error" \in DOMAIN response
        /\ (mpc = "returned" /\ "text" \in DOMAIN api /\ Contains(api.text, BAD_INSTRUCTIONS))
              => response = [error |-> MSG_BAD_INSTRUCTIONS]

\* C9 witness: a fenced text was returned as a diagram from which the
\* sanitizer removed a line.
C9_Witness ==
    /\ mpc = "returned"
    /\ "diagram" \in DOMAIN response
    /\ Contains(api.text, FENCE)
    /\ response.diagram # StripFences(api.text)
    /\ response.diagram # <<>>

\* C10: when the generation call raises, no diagram is returned: the
\* outcome is the HTTP 429 error if the exception text holds "429" or, in
\* any case of letters, "rate limit", and else an error carrying the
\* exception text; a text without the sentinel always gives a diagram.
C10_OracleFailure ==
    mpc = "returned" =>
        /\ "raised" \in DOMAIN api =>
              IF Contains(api.raised, S_429) \/ ContainsIgnoreCase(api.raised, S_RATE_LIMIT)
              THEN response = [HTTPException |->
                                 [status_code |-> STATUS_RATE_LIMITED, detail |-> MSG_HIGH_DEMAND]]
              ELSE response = [error |-> api.raised]
        /\ ("text" \in DOMAIN api /\ api.text = <<>>) => response = [error |-> MSG_NO_CONTENT]
        /\ ("text" \in DOMAIN api /\ api.text # <<>> /\ ~Contains(api.text, BAD_INSTRUCTIONS))
              => "diagram" \in DOMAIN response

\* C10 witness: an exception without "429" whose text says "Rate Limit"
\* in mixed case ended in the HTTP 429 error.
C10_Witness ==
    /\ mpc = "returned"
    /\ "raised" \in DOMAIN api
    /\ ~Contains(api.raised, S_429)
    /\ ~Contains(api.raised, S_RATE_LIMIT)
    /\ "HTTPException" \in DOMAIN response

====
